---- MODULE Spec2Model ----
(***************************************************************************)
(* Model of the MusicMill phrase pipeline:                                 *)
(*   scripts/analyze_library.py     boundary detection (segments) and the  *)
(*                                  collection-wide run                    *)
(*   scripts/build_phrase_graph.py  compatibility scoring, phrase          *)
(*                                  extraction and link computation        *)
(*   scripts/rave_server.py         the socket server's connection loop    *)
(*                                                                         *)
(* Numbers.  The Python code works on floats; the model works on exact     *)
(* rationals written as scaled integers:                                   *)
(*   tempo               tenths of a BPM         (1281 = 128.1 BPM)        *)
(*   energy              hundredths              (55   = 0.55)             *)
(*   spectral centroid   Hz                                                *)
(*   sub-scores          hundredths              (85   = 0.85)             *)
(*   link weight         ten-thousandths         (8750 = 0.875)            *)
(*   time                TimeUnit-ths of a second                          *)
(* Comparisons against thresholds are cross-multiplied so that no          *)
(* division is rounded.                                                    *)
(*                                                                         *)
(* Key names are sequences of one-character strings (<<"D","b">> is "Db")  *)
(* so that strip() and upper() can be modelled by what they do.  The       *)
(* empty sequence stands for a missing key (None or ''): both are falsy.   *)
(***************************************************************************)
EXTENDS Integers, Sequences, FiniteSets, TLC

VARIABLES
    call,            \* scorer: the last scoring call, its arguments and result
    analysis,        \* graph: the analysis dict's "tracks" list
    phrases,         \* graph: the list of PhraseNode
    gpc,             \* graph: position in main()
    outer,           \* graph: index i of compute_all_links' outer loop
    run,             \* graph: how many times compute_all_links was started
    firstLinks,      \* graph: each node's links when the first run returned
    todo,            \* graph: outer-loop indices not yet run, when run in any order
    audio_files,     \* directory: the audio files found, in the order of the loop
    results,         \* directory: results["tracks"]
    file_index,      \* directory: how many files the loop has been through
    apc,             \* directory: position in analyze_directory
    duration,        \* detector: len(y) / sr
    beat_times,      \* detector: the beat tracker's beat times
    novelty_peaks,   \* detector: the peaks picked from the onset envelope
    downbeats,       \* detector: every 4th beat
    bars_per_phrase, \* detector: 8 or 16
    all_boundaries,  \* detector: the growing set of boundaries
    peak,            \* detector: how many novelty peaks the merge loop has seen
    phrase_times,    \* detector: the sorted boundary list
    segments,        \* detector: the segments returned
    dpc,             \* detector: position in detect_phrases_and_segments
    spc,             \* server: position in run_server / handle_connection
    client,          \* server: the client's end of the connection
    requested,       \* server: the commands the client has sent, in order
    wire,            \* server: bytes sent by the client, not yet returned by recv
    buffer,          \* server: handle_connection's buffer
    request_count,   \* server: handle_connection's request_count
    outbox           \* server: the responses passed to conn.sendall, in order

graphVars == <<analysis, phrases, gpc, outer, run, firstLinks, todo>>

directoryVars == <<audio_files, results, file_index, apc>>

detectorVars ==
    <<duration, beat_times, novelty_peaks, downbeats, bars_per_phrase,
      all_boundaries, peak, phrase_times, segments, dpc>>

serverVars == <<spc, client, requested, wire, buffer, request_count, outbox>>

vars == <<call, graphVars, detectorVars, directoryVars, serverVars>>

(***************************************************************************)
(* Generic helpers                                                         *)
(***************************************************************************)
Abs(x) == IF x < 0 THEN -x ELSE x

Min(x, y) == IF x <= y THEN x ELSE y

Max(x, y) == IF x >= y THEN x ELSE y

Range(s) == {s[n] : n \in DOMAIN s}

\* list.index answering 0 for a value that is not in the list
IndexOf_zero(s, x) ==
    IF \E n \in DOMAIN s : s[n] = x
    THEN (CHOOSE n \in DOMAIN s : s[n] = x /\ \A m \in 1..(n - 1) : s[m] # x) - 1
    ELSE 0

\* Python's list.index, 0-based; -1 stands for ValueError
IndexOf(s, x) ==
    IF \E n \in DOMAIN s : s[n] = x
    THEN (CHOOSE n \in DOMAIN s : s[n] = x /\ \A m \in 1..(n - 1) : s[m] # x) - 1
    ELSE -1

(***************************************************************************)
(* CONFIGURATION (build_phrase_graph.py)                                   *)
(***************************************************************************)
MIN_LINK_WEIGHT == 3000

MAX_LINKS_PER_PHRASE == 20

\* 0.05 and 0.1, in hundredths
TEMPO_EXACT_THRESHOLD == 5

TEMPO_HALF_DOUBLE_THRESHOLD == 10

KEY_CIRCLE ==
    << <<"C">>, <<"G">>, <<"D">>, <<"A">>, <<"E">>, <<"B">>, <<"F", "#">>,
       <<"D", "b">>, <<"A", "b">>, <<"E", "b">>, <<"B", "b">>, <<"F">> >>

KEY_NAMES ==
    << <<"C">>, <<"C", "#">>, <<"D">>, <<"D", "#">>, <<"E">>, <<"F">>,
       <<"F", "#">>, <<"G">>, <<"G", "#">>, <<"A">>, <<"A", "#">>, <<"B">> >>

(***************************************************************************)
(* KEY COMPATIBILITY                                                       *)
(***************************************************************************)
\* str.upper() on one character
UpperChar(c) ==
    CASE c = "a" -> "A"
      [] c = "b" -> "B"
      [] c = "c" -> "C"
      [] c = "d" -> "D"
      [] c = "e" -> "E"
      [] c = "f" -> "F"
      [] c = "g" -> "G"
      [] c = "h" -> "H"
      [] c = "m" -> "M"
      [] OTHER -> c

Upper(k) == [n \in DOMAIN k |-> UpperChar(k[n])]

\* str.strip(): drop leading and trailing blanks
RECURSIVE LStrip(_)
LStrip(k) ==
    IF k # <<>> /\ Head(k) = " " THEN LStrip(Tail(k)) ELSE k

RECURSIVE RStrip(_)
RStrip(k) ==
    IF k # <<>> /\ k[Len(k)] = " " THEN RStrip(SubSeq(k, 1, Len(k) - 1)) ELSE k

Strip(k) == RStrip(LStrip(k))

\* the `equivalents` dict of normalize_key
Equivalent(k) ==
    CASE k = <<"D", "B">> -> <<"C", "#">>
      [] k = <<"E", "B">> -> <<"D", "#">>
      [] k = <<"G", "B">> -> <<"F", "#">>
      [] k = <<"A", "B">> -> <<"G", "#">>
      [] k = <<"B", "B">> -> <<"A", "#">>
      [] OTHER -> k

normalize_key(key) ==
    IF key = <<>> THEN <<>> ELSE Equivalent(Upper(Strip(key)))

\* position used by key_distance: KEY_CIRCLE first, KEY_NAMES otherwise
KeyPosition(k) ==
    IF k \in Range(KEY_CIRCLE) THEN IndexOf(KEY_CIRCLE, k) ELSE IndexOf(KEY_NAMES, k)

\* key_distance looking key2 up in KEY_NAMES only
key_distance_names(key1, key2) ==
    IF key1 = <<>> \/ key2 = <<>> THEN 3
    ELSE LET k1 == normalize_key(key1)
             k2 == normalize_key(key2)
         IN  IF k1 = k2 THEN 0
             ELSE LET i1 == KeyPosition(k1)
                      i2 == IndexOf(KEY_NAMES, k2)
                      dist == Abs(i1 - i2)
                  IN  IF i1 = -1 \/ i2 = -1 THEN 3
                      ELSE Min(dist, 12 - dist)

key_distance(key1, key2) ==
    IF key1 = <<>> \/ key2 = <<>> THEN 3
    ELSE LET k1 == normalize_key(key1)
             k2 == normalize_key(key2)
         IN  IF k1 = k2 THEN 0
             ELSE LET i1 == KeyPosition(k1)
                      i2 == KeyPosition(k2)
                      dist == Abs(i1 - i2)
                  IN  IF i1 = -1 \/ i2 = -1 THEN 3
                      ELSE Min(dist, 12 - dist)

KeyScoreTable == <<100, 90, 80, 60, 40, 20, 10>>

compute_key_score(key1, key2) ==
    KeyScoreTable[Min(key_distance(key1, key2), 6) + 1]

(***************************************************************************)
(* TEMPO COMPATIBILITY                                                     *)
(* ratio = tempo1 / tempo2; |ratio - c| <= h/100 is checked as             *)
(* 100 * |tempo1 - c * tempo2| <= h * tempo2  (tempo2 > 0).                *)
(***************************************************************************)
\* compute_tempo_score without the double-time branch (ratio near 0.5)
compute_tempo_score_nodouble(tempo1, tempo2) ==
    IF tempo1 <= 0 \/ tempo2 <= 0 THEN 50
    ELSE IF 100 * Abs(tempo1 - tempo2) <= TEMPO_EXACT_THRESHOLD * tempo2 THEN 100
    ELSE IF 100 * Abs(tempo1 - 2 * tempo2) <= TEMPO_HALF_DOUBLE_THRESHOLD * tempo2 THEN 85
    ELSE IF 100 * Abs(tempo1 - tempo2) <= 10 * tempo2 THEN 80
    ELSE IF 100 * Abs(tempo1 - tempo2) <= 20 * tempo2 THEN 50
    ELSE 20

compute_tempo_score(tempo1, tempo2) ==
    IF tempo1 <= 0 \/ tempo2 <= 0 THEN 50
    ELSE IF 100 * Abs(tempo1 - tempo2) <= TEMPO_EXACT_THRESHOLD * tempo2 THEN 100
    ELSE IF 100 * Abs(tempo1 - 2 * tempo2) <= TEMPO_HALF_DOUBLE_THRESHOLD * tempo2 THEN 85
    ELSE IF 100 * Abs(2 * tempo1 - tempo2) <= TEMPO_HALF_DOUBLE_THRESHOLD * 2 * tempo2 THEN 85
    ELSE IF 100 * Abs(tempo1 - tempo2) <= 10 * tempo2 THEN 80
    ELSE IF 100 * Abs(tempo1 - tempo2) <= 20 * tempo2 THEN 50
    ELSE 20

(***************************************************************************)
(* ENERGY COMPATIBILITY                                                    *)
(***************************************************************************)
\* compute_energy_score with the first test "abs(diff) < 0.1"
compute_energy_score_strict(energy1, energy2) ==
    LET diff == energy2 - energy1
    IN  IF Abs(diff) < 10 THEN 85
        ELSE IF 10 < diff /\ diff <= 30 THEN 90
        ELSE IF diff > 30 THEN 50
        ELSE IF -30 <= diff /\ diff < -10 THEN 75
        ELSE IF diff < -30 THEN 40
        ELSE 60

\* compute_energy_score with the "large build" branch scored like a gradual build
compute_energy_score_build(energy1, energy2) ==
    LET diff == energy2 - energy1
    IN  IF Abs(diff) <= 10 THEN 85
        ELSE IF diff > 10 THEN 90
        ELSE IF -30 <= diff /\ diff < -10 THEN 75
        ELSE IF diff < -30 THEN 40
        ELSE 60

compute_energy_score(energy1, energy2) ==
    LET diff == energy2 - energy1
    IN  IF Abs(diff) <= 10 THEN 85
        ELSE IF 10 < diff /\ diff <= 30 THEN 90
        ELSE IF diff > 30 THEN 50
        ELSE IF -30 <= diff /\ diff < -10 THEN 75
        ELSE IF diff < -30 THEN 40
        ELSE 60

(***************************************************************************)
(* SPECTRAL COMPATIBILITY                                                  *)
(* ratio = max / min; ratio < 1.2 is checked as 10 * max < 12 * min.       *)
(***************************************************************************)
\* compute_spectral_score with ratio = centroid1 / centroid2
compute_spectral_score_ratio(centroid1, centroid2) ==
    IF centroid1 <= 0 \/ centroid2 <= 0 THEN 50
    ELSE IF 10 * centroid1 < 12 * centroid2 THEN 100
    ELSE IF 10 * centroid1 < 15 * centroid2 THEN 80
    ELSE IF 10 * centroid1 < 20 * centroid2 THEN 60
    ELSE 40

compute_spectral_score(centroid1, centroid2) ==
    IF centroid1 <= 0 \/ centroid2 <= 0 THEN 50
    ELSE LET hi == Max(centroid1, centroid2)
             lo == Min(centroid1, centroid2)
         IN  IF 10 * hi < 12 * lo THEN 100
             ELSE IF 10 * hi < 15 * lo THEN 80
             ELSE IF 10 * hi < 20 * lo THEN 60
             ELSE 40

(***************************************************************************)
(* OVERALL COMPATIBILITY                                                   *)
(***************************************************************************)
\* compute_link_weight with the spectral score weighted 0.25
compute_link_weight_sum(phrase1, phrase2) ==
    LET tempo_score == compute_tempo_score(phrase1.tempo, phrase2.tempo)
        key_score == compute_key_score(phrase1.key, phrase2.key)
        energy_score == compute_energy_score(phrase1.energy, phrase2.energy)
        spectral_score ==
            compute_spectral_score(phrase1.spectralCentroid, phrase2.spectralCentroid)
    IN  [weight |-> tempo_score * 35 + key_score * 25
                    + energy_score * 25 + spectral_score * 25,
         tempo |-> tempo_score,
         key |-> key_score,
         energy |-> energy_score,
         spectral |-> spectral_score]

\* the `scores` dict and `weight` returned by compute_link_weight
compute_link_weight(phrase1, phrase2) ==
    LET tempo_score == compute_tempo_score(phrase1.tempo, phrase2.tempo)
        key_score == compute_key_score(phrase1.key, phrase2.key)
        energy_score == compute_energy_score(phrase1.energy, phrase2.energy)
        spectral_score ==
            compute_spectral_score(phrase1.spectralCentroid, phrase2.spectralCentroid)
    IN  [weight |-> tempo_score * 35 + key_score * 25
                    + energy_score * 25 + spectral_score * 15,
         tempo |-> tempo_score,
         key |-> key_score,
         energy |-> energy_score,
         spectral |-> spectral_score]

\* suggest_transition testing the 0.6 threshold before the 0.8 threshold
suggest_transition_order(weight, energy_diff) ==
    IF weight > 6000 THEN "eqSwap"
    ELSE IF weight > 8000 THEN "crossfade"
    ELSE IF weight > 4000 /\ Abs(energy_diff) > 30 THEN "filter"
    ELSE "cut"

suggest_transition(weight, energy_diff) ==
    IF weight > 8000 THEN "crossfade"
    ELSE IF weight > 6000 THEN "eqSwap"
    ELSE IF weight > 4000 /\ Abs(energy_diff) > 30 THEN "filter"
    ELSE "cut"

\* the PhraseLink with scores['key'] and scores['tempo'] stored in each
\* other's field
MakeLink_swapped(phrase1, phrase2, is_original_seq) ==
    LET ws == compute_link_weight(phrase1, phrase2)
        energy_diff == phrase2.energy - phrase1.energy
    IN  [targetId |-> phrase2.id,
         weight |-> ws.weight,
         isOriginalSequence |-> is_original_seq,
         suggestedTransition |-> suggest_transition(ws.weight, energy_diff),
         tempoScore |-> ws.key,
         keyScore |-> ws.tempo,
         energyScore |-> ws.energy,
         spectralScore |-> ws.spectral]

\* the PhraseLink built in the body of compute_all_links' inner loop
MakeLink(phrase1, phrase2, is_original_seq) ==
    LET ws == compute_link_weight(phrase1, phrase2)
        energy_diff == phrase2.energy - phrase1.energy
    IN  [targetId |-> phrase2.id,
         weight |-> ws.weight,
         isOriginalSequence |-> is_original_seq,
         suggestedTransition |-> suggest_transition(ws.weight, energy_diff),
         tempoScore |-> ws.tempo,
         keyScore |-> ws.key,
         energyScore |-> ws.energy,
         spectralScore |-> ws.spectral]

(***************************************************************************)
(* List helpers                                                            *)
(***************************************************************************)
Take(s, n) == SubSeq(s, 1, Min(n, Len(s)))

(***************************************************************************)
(* PHRASE EXTRACTION                                                       *)
(* A PhraseNode carries the fields the link computation reads or writes    *)
(* and the segment-relative beat lists; sourceTrackName, audioFile,        *)
(* segmentType and waveform are left out (no operation below reads them).  *)
(***************************************************************************)
\* uuid.uuid4(): the n-th identifier handed out, distinct from all others
Uuid(n) == 100 + n

\* "if duration <= 0: continue", with the test failing to catch end = start
Degenerate_strict(segment) == segment.end - segment.start < 0

\* "if duration <= 0: continue"
Degenerate(segment) == segment.end - segment.start <= 0

\* [b - start for b in beats if start <= b < end]
SegmentBeats(beats, start, end) ==
    LET inside == SelectSeq(beats, LAMBDA b : start <= b /\ b < end)
    IN  [n \in DOMAIN inside |-> inside[n] - start]

\* the PhraseNode(...) constructor call of extract_phrases_from_analysis
NewPhrase(track, phrase_index, phrase_id) ==
    LET segment == track.segments[phrase_index + 1]
    IN  [id |-> phrase_id,
         sourceTrack |-> track.path,
         trackIndex |-> phrase_index,
         tempo |-> track.tempo,
         key |-> track.key,
         energy |-> segment.energy,
         spectralCentroid |-> track.spectralCentroid,
         duration |-> segment.end - segment.start,
         startTime |-> segment.start,
         endTime |-> segment.end,
         beats |-> SegmentBeats(track.beats, segment.start, segment.end),
         downbeats |-> SegmentBeats(track.downbeats, segment.start, segment.end),
         links |-> <<>>]

\* the inner loop over one track's segments; `made` phrases exist already
TrackPhrases(track, made) ==
    IF track.segments = <<>> THEN <<>>
    ELSE LET kept == SelectSeq([k \in DOMAIN track.segments |-> k],
                               LAMBDA k : ~Degenerate(track.segments[k]))
         IN  [r \in DOMAIN kept |-> NewPhrase(track, kept[r] - 1, Uuid(made + r))]

\* the loop over tracks, appending to `phrases`
RECURSIVE ExtractFrom(_, _)
ExtractFrom(tracks, made) ==
    IF tracks = <<>> THEN <<>>
    ELSE LET new == TrackPhrases(Head(tracks), made)
         IN  new \o ExtractFrom(Tail(tracks), made + Len(new))

extract_phrases_from_analysis(tracks) == ExtractFrom(tracks, 0)

(***************************************************************************)
(* LINK COMPUTATION                                                        *)
(***************************************************************************)
\* p put into the list s, sorted by trackIndex, behind every phrase whose
\* trackIndex is not larger
InsertByTrackIndex(s, p) ==
    LET ahead == Cardinality({n \in DOMAIN s : s[n].trackIndex <= p.trackIndex})
    IN  SubSeq(s, 1, ahead) \o <<p>> \o SubSeq(s, ahead + 1, Len(s))

\* track_phrases.sort(key=lambda p: p.trackIndex), a stable sort
RECURSIVE SortByTrackIndex(_)
SortByTrackIndex(s) ==
    IF s = <<>> THEN <<>>
    ELSE InsertByTrackIndex(SortByTrackIndex(SubSeq(s, 1, Len(s) - 1)), s[Len(s)])

\* by_track[path]: the phrases of one track, sorted by trackIndex
by_track(ps, path) ==
    SortByTrackIndex(SelectSeq(ps, LAMBDA p : p.sourceTrack = path))

\* is_original_seq decided by "phrase2.trackIndex == phrase1.trackIndex + 1"
is_original_seq_index(track_phrases, phrase1, phrase2) ==
    /\ phrase2.sourceTrack = phrase1.sourceTrack
    /\ phrase2.trackIndex = phrase1.trackIndex + 1

\* the scan that sets is_original_seq: stop at phrase1's first position that
\* has a successor, and compare the successor's id
is_original_seq(track_phrases, phrase1, phrase2) ==
    LET at == {j \in 1..(Len(track_phrases) - 1) : track_phrases[j].id = phrase1.id}
    IN  /\ at # {}
        /\ track_phrases[(CHOOSE j \in at : \A m \in at : j <= m) + 1].id = phrase2.id

\* the inner loop's filter without the weight test
KeepCandidate_all(phrase1, link) == link.targetId # phrase1.id

\* the inner loop's filter without the "skip self-links" test
KeepCandidate_self(phrase1, link) ==
    link.isOriginalSequence \/ link.weight >= MIN_LINK_WEIGHT

\* the inner loop's filter: skip self-links, then
\* "if is_original_seq or weight >= MIN_LINK_WEIGHT"
KeepCandidate(phrase1, link) ==
    /\ link.targetId # phrase1.id
    /\ (link.isOriginalSequence \/ link.weight >= MIN_LINK_WEIGHT)

\* candidate_links without the targets that already hold a link to phrase1
Candidates_reciprocal(ps, i) ==
    LET phrase1 == ps[i]
        track_phrases == by_track(ps, phrase1.sourceTrack)
        all == [j \in DOMAIN ps |->
                   MakeLink(phrase1, ps[j],
                            is_original_seq(track_phrases, phrase1, ps[j]))]
        linked_back ==
            {ps[j].id : j \in {m \in DOMAIN ps :
                                \E n \in DOMAIN ps[m].links :
                                    ps[m].links[n].targetId = phrase1.id}}
    IN  SelectSeq(all, LAMBDA link : /\ KeepCandidate(phrase1, link)
                                     /\ link.targetId \notin linked_back)

\* candidate_links of phrase number i, in the order of `phrases`
Candidates(ps, i) ==
    LET phrase1 == ps[i]
        track_phrases == by_track(ps, phrase1.sourceTrack)
        all == [j \in DOMAIN ps |->
                   MakeLink(phrase1, ps[j],
                            is_original_seq(track_phrases, phrase1, ps[j]))]
    IN  SelectSeq(all, LAMBDA link : KeepCandidate(phrase1, link))

\* sort key (-l.isOriginalSequence, l.weight)
LinkBefore_ascending(a, b) ==
    \/ a.isOriginalSequence /\ ~b.isOriginalSequence
    \/ a.isOriginalSequence = b.isOriginalSequence /\ a.weight < b.weight

\* sort key -weight only
LinkBefore_weight(a, b) == a.weight > b.weight

\* sort key (-l.isOriginalSequence, -l.weight)
LinkBefore(a, b) ==
    \/ a.isOriginalSequence /\ ~b.isOriginalSequence
    \/ a.isOriginalSequence = b.isOriginalSequence /\ a.weight > b.weight

\* link put into the sorted list s ahead of every link whose key is not smaller
InsertLink_ahead(s, link) ==
    LET ahead == Cardinality({n \in DOMAIN s : LinkBefore(s[n], link)})
    IN  SubSeq(s, 1, ahead) \o <<link>> \o SubSeq(s, ahead + 1, Len(s))

\* link put into the sorted list s behind every link whose key is not larger
InsertLink(s, link) ==
    LET ahead == Cardinality({n \in DOMAIN s : ~LinkBefore(link, s[n])})
    IN  SubSeq(s, 1, ahead) \o <<link>> \o SubSeq(s, ahead + 1, Len(s))

\* candidate_links.sort(key=lambda l: (-l.isOriginalSequence, -l.weight)),
\* a stable sort
RECURSIVE SortLinks(_)
SortLinks(s) ==
    IF s = <<>> THEN <<>>
    ELSE InsertLink(SortLinks(SubSeq(s, 1, Len(s) - 1)), s[Len(s)])

\* phrase1.links = candidate_links[:MAX_LINKS_PER_PHRASE] without the sort
NewLinks_unsorted(ps, i) ==
    Take(Candidates(ps, i), MAX_LINKS_PER_PHRASE)

\* the new links appended to the links the phrase already has
NewLinks_append(ps, i) ==
    Take(SortLinks(ps[i].links \o Candidates(ps, i)), MAX_LINKS_PER_PHRASE)

\* candidate_links.sort(...); phrase1.links = candidate_links[:MAX_LINKS_PER_PHRASE]
NewLinks(ps, i) ==
    Take(SortLinks(Candidates(ps, i)), MAX_LINKS_PER_PHRASE)

(***************************************************************************)
(* Graph inputs: the "tracks" list of the analysis file.  A track is built *)
(* from an attribute profile and a segment layout; its path is its number. *)
(***************************************************************************)
MaxTracks == 2

MaxSegs == 12

MaxRuns == 2

Profiles ==
    { [tempo |-> 1280, key |-> <<"C">>, spectralCentroid |-> 1200],
      [tempo |-> 1750, key |-> <<"F", "#">>, spectralCentroid |-> 3000],
      [tempo |-> 0, key |-> <<>>, spectralCentroid |-> 0] }

\* n segments; segment 2 may have zero or negative duration
Layouts ==
    { [n |-> 0, bad |-> "none"],
      [n |-> 3, bad |-> "zero"],
      [n |-> 3, bad |-> "negative"],
      [n |-> MaxSegs, bad |-> "none"] }

\* the kinds of track the collections are made of: both keyed profiles with
\* the long layout, and each short layout with one profile
TrackKinds ==
    {kind \in [profile : Profiles, layout : Layouts] :
        \/ kind.layout.n = MaxSegs /\ kind.profile.tempo > 0
        \/ kind.layout.bad = "zero" /\ kind.profile.tempo = 0
        \/ kind.layout.bad = "negative" /\ kind.profile.tempo = 1280
        \/ kind.layout.n = 0 /\ kind.profile.tempo = 1750}

EnergyAt(k) ==
    IF k = 1 THEN 90 ELSE IF k = 2 THEN 20 ELSE <<85, 65, 95>>[(k % 3) + 1]

SegmentInput(k, bad) ==
    [start |-> 16 * (k - 1),
     end |-> IF k = 2 /\ bad = "zero" THEN 16 * (k - 1)
             ELSE IF k = 2 /\ bad = "negative" THEN 16 * (k - 1) - 4
             ELSE 16 * k,
     energy |-> EnergyAt(k)]

TrackInput(path, profile, layout) ==
    [path |-> path,
     tempo |-> profile.tempo,
     key |-> profile.key,
     spectralCentroid |-> profile.spectralCentroid,
     segments |-> [k \in 1..layout.n |-> SegmentInput(k, layout.bad)],
     beats |-> [b \in 1..(4 * layout.n) |-> 4 * (b - 1)],
     downbeats |-> [b \in 1..layout.n |-> 16 * (b - 1)]]

(***************************************************************************)
(* main() of build_phrase_graph.py, without waveforms and saving           *)
(***************************************************************************)
LinksOf(ps) == [n \in DOMAIN ps |-> ps[n].links]

\* phrases = extract_phrases_from_analysis(analysis); exit when there are none
ExtractPhrases ==
    /\ gpc = "extract"
    /\ phrases' = extract_phrases_from_analysis(analysis)
    /\ gpc' = IF phrases' = <<>> THEN "exit" ELSE "links"
    /\ run' = IF phrases' = <<>> THEN run ELSE 1
    /\ UNCHANGED <<serverVars, call, analysis, outer, firstLinks, todo, detectorVars, directoryVars>>

\* one iteration of the outer loop, with track_phrases.sort sorting `phrases`
LinkPhrase_sorting ==
    /\ gpc = "links"
    /\ outer < Len(phrases)
    /\ phrases' = [SortByTrackIndex(phrases) EXCEPT
                       ![outer + 1].links = NewLinks(SortByTrackIndex(phrases), outer + 1)]
    /\ outer' = outer + 1
    /\ UNCHANGED <<serverVars, call, analysis, gpc, run, firstLinks, todo, detectorVars, directoryVars>>

\* one iteration of compute_all_links' outer loop
LinkPhrase ==
    /\ gpc = "links"
    /\ outer < Len(phrases)
    /\ phrases' = [phrases EXCEPT ![outer + 1].links = NewLinks(phrases, outer + 1)]
    /\ outer' = outer + 1
    /\ UNCHANGED <<serverVars, call, analysis, gpc, run, firstLinks, todo, detectorVars, directoryVars>>

\* compute_all_links returns
ReturnLinks ==
    /\ gpc = "links"
    /\ outer = Len(phrases)
    /\ gpc' = "done"
    /\ firstLinks' = IF run = 1 THEN LinksOf(phrases) ELSE firstLinks
    /\ UNCHANGED <<serverVars, call, analysis, phrases, outer, run, todo, detectorVars, directoryVars>>

\* compute_all_links is called again on the list it returned
RunAgain ==
    /\ gpc = "done"
    /\ run < MaxRuns
    /\ gpc' = "links"
    /\ outer' = 0
    /\ run' = run + 1
    /\ UNCHANGED <<serverVars, call, analysis, phrases, firstLinks, todo, detectorVars, directoryVars>>

(***************************************************************************)
(* Scorer calls: the initial state holds one scoring call with arguments   *)
(* drawn from the input sets below; the action of that function runs it.   *)
(* No input lies exactly on a threshold of the function it is given to,    *)
(* where the float comparison depends on rounding (2.1 - 2.0 > 0.1).       *)
(***************************************************************************)
TempoInputs == {-10, 0, 600, 640, 1000, 1040, 1052, 1150, 1280, 1281, 1400, 2090, 2560}

KeyInputs ==
    Range(KEY_NAMES) \cup
    { <<"D", "b">>, <<"E", "b">>, <<"G", "b">>, <<"A", "b">>, <<"B", "b">>,
      <<"d", "b">>, <<" ", "a", "b">>, <<"f", "#", " ">>, <<"H">>, <<"A", "m">>,
      <<>> }

EnergyInputs == {0, 10, 20, 30, 50, 55, 60, 75, 95, 100}

CentroidInputs == {-10, 0, 800, 1000, 1200, 1250, 1440, 1800, 2400, 2500, 5000}

\* attribute records for whole-pair scoring
PairTempos == {0, 640, 1280, 1281, 1750}

PairKeys == { <<"C">>, <<"D", "b">>, <<"F", "#">>, <<>> }

PairEnergies == {20, 50, 55, 90}

PairCentroids == {0, 1200, 1250, 3000}

PhraseInputs ==
    [id : {1}, tempo : PairTempos, key : PairKeys,
     energy : PairEnergies, spectralCentroid : PairCentroids]

\* a call that has not run yet: its arguments are chosen, its result is not
Pending(fn, x, y) == [fn |-> fn, x |-> x, y |-> y, done |-> FALSE, out |-> 0]

NoCall == Pending("none", 0, 0)

ScorerCalls ==
    \/ \E tempo1 \in TempoInputs, tempo2 \in TempoInputs :
          call = Pending("compute_tempo_score", tempo1, tempo2)
    \/ \E key1 \in KeyInputs, key2 \in KeyInputs :
          call = Pending("compute_key_score", key1, key2)
    \/ \E energy1 \in EnergyInputs, energy2 \in EnergyInputs :
          call = Pending("compute_energy_score", energy1, energy2)
    \/ \E centroid1 \in CentroidInputs, centroid2 \in CentroidInputs :
          call = Pending("compute_spectral_score", centroid1, centroid2)
    \/ \E phrase1 \in PhraseInputs, phrase2 \in PhraseInputs :
          call = Pending("compute_link_weight", phrase1, [phrase2 EXCEPT !.id = 2])

Return(value) == call' = [call EXCEPT !.done = TRUE, !.out = value]

CallTempoScore ==
    /\ call.fn = "compute_tempo_score" /\ ~call.done
    /\ Return(compute_tempo_score(call.x, call.y))
    /\ UNCHANGED <<serverVars, graphVars, detectorVars, directoryVars>>

CallKeyScore ==
    /\ call.fn = "compute_key_score" /\ ~call.done
    /\ Return(compute_key_score(call.x, call.y))
    /\ UNCHANGED <<serverVars, graphVars, detectorVars, directoryVars>>

CallEnergyScore ==
    /\ call.fn = "compute_energy_score" /\ ~call.done
    /\ Return(compute_energy_score(call.x, call.y))
    /\ UNCHANGED <<serverVars, graphVars, detectorVars, directoryVars>>

CallSpectralScore ==
    /\ call.fn = "compute_spectral_score" /\ ~call.done
    /\ Return(compute_spectral_score(call.x, call.y))
    /\ UNCHANGED <<serverVars, graphVars, detectorVars, directoryVars>>

\* one pass of the inner-loop body of compute_all_links for a pair of phrases
CallLinkWeight ==
    /\ call.fn = "compute_link_weight" /\ ~call.done
    /\ Return(MakeLink(call.x, call.y, FALSE))
    /\ UNCHANGED <<serverVars, graphVars, detectorVars, directoryVars>>

(***************************************************************************)
(* Scorer specification                                                    *)
(***************************************************************************)
GraphIdle ==
    /\ analysis = <<>>
    /\ phrases = <<>>
    /\ gpc = "idle"
    /\ outer = 0
    /\ run = 0
    /\ firstLinks = <<>>
    /\ todo = {}

DirectoryIdle ==
    /\ audio_files = <<>>
    /\ results = <<>>
    /\ file_index = 0
    /\ apc = "idle"

DetectorIdle ==
    /\ duration = 0
    /\ beat_times = <<>>
    /\ novelty_peaks = <<>>
    /\ downbeats = <<>>
    /\ bars_per_phrase = 0
    /\ all_boundaries = {}
    /\ peak = 0
    /\ phrase_times = <<>>
    /\ segments = <<>>
    /\ dpc = "idle"

ServerIdle ==
    /\ spc = "idle"
    /\ client = "idle"
    /\ requested = <<>>
    /\ wire = <<>>
    /\ buffer = <<>>
    /\ request_count = 0
    /\ outbox = <<>>

ScorerInit ==
    /\ ScorerCalls
    /\ GraphIdle
    /\ DetectorIdle
    /\ DirectoryIdle
    /\ ServerIdle

ScorerNext ==
    \/ CallTempoScore
    \/ CallKeyScore
    \/ CallEnergyScore
    \/ CallSpectralScore
    \/ CallLinkWeight

ScorerSpec == ScorerInit /\ [][ScorerNext]_vars

(***************************************************************************)
(* Scorer properties                                                       *)
(***************************************************************************)
Returned(fn) == call.fn = fn /\ call.done

\* the two phrases of a link call agree in tempo, key and spectral centroid
SameButEnergy ==
    /\ call.x.tempo = call.y.tempo
    /\ call.x.key = call.y.key
    /\ call.x.spectralCentroid = call.y.spectralCentroid

\* C5 as stated: A (energy 0.2) -> B (energy 0.9), otherwise identical, has
\* energy score 0.5, a weight in (0.4, 0.6] and suggestedTransition "filter".
C5_Stated ==
    (Returned("compute_link_weight") /\ SameButEnergy
        /\ call.x.energy = 20 /\ call.y.energy = 90)
    => /\ call.out.energyScore = 50
       /\ call.out.weight > 4000 /\ call.out.weight <= 6000
       /\ call.out.suggestedTransition = "filter"

\* C5 amended: A (energy 0.2) -> B (energy 0.9), otherwise identical, has
\* energy score 0.5; when the shared tempo is positive, the shared key is
\* present and the shared centroid is positive, the weight is 0.875 and
\* suggestedTransition is "crossfade".
C5_EnergyJump ==
    (Returned("compute_link_weight") /\ SameButEnergy
        /\ call.x.energy = 20 /\ call.y.energy = 90)
    => /\ call.out.energyScore = 50
       /\ (call.x.tempo > 0 /\ call.x.key # <<>> /\ call.x.spectralCentroid > 0)
            => /\ call.out.weight = 8750
               /\ call.out.suggestedTransition = "crossfade"

C5_Witness ==
    /\ Returned("compute_link_weight") /\ SameButEnergy
    /\ call.x.energy = 20 /\ call.y.energy = 90
    /\ call.x.tempo = 1280 /\ call.x.key = <<"C">> /\ call.x.spectralCentroid = 1200

\* tempos a, b are positive and one is within 5% of the other
TemposWithin5(a, b) ==
    /\ a > 0 /\ b > 0
    /\ \/ 100 * Abs(a - b) <= 5 * b
       \/ 100 * Abs(a - b) <= 5 * a

\* C6: same key, tempos within 5% of each other, energies at most 0.1 apart
\* and centroid ratio below 1.2 give weight > 0.8 and "crossfade".
C6_CloseMatch ==
    (Returned("compute_link_weight")
        /\ call.x.key # <<>> /\ call.x.key = call.y.key
        /\ TemposWithin5(call.x.tempo, call.y.tempo)
        /\ Abs(call.y.energy - call.x.energy) <= 10
        /\ call.x.spectralCentroid > 0 /\ call.y.spectralCentroid > 0
        /\ 10 * Max(call.x.spectralCentroid, call.y.spectralCentroid)
              < 12 * Min(call.x.spectralCentroid, call.y.spectralCentroid))
    => /\ call.out.weight > 8000
       /\ call.out.suggestedTransition = "crossfade"

\* the scenario of the spec: 128 vs 128.1 BPM, 0.5 vs 0.55, 1200 vs 1250 Hz
C6_Witness ==
    /\ Returned("compute_link_weight")
    /\ call.x.key = <<"C">> /\ call.y.key = <<"C">>
    /\ call.x.tempo = 1280 /\ call.y.tempo = 1281
    /\ call.x.energy = 50 /\ call.y.energy = 55
    /\ call.x.spectralCentroid = 1200 /\ call.y.spectralCentroid = 1250

\* ratio a / b lies in [centre - tol, centre + tol], centre and tol in hundredths
RatioWithin(a, b, centre, tol) ==
    /\ 100 * a >= (centre - tol) * b
    /\ 100 * a <= (centre + tol) * b

Swapped ==
    CASE call.fn = "compute_tempo_score" -> compute_tempo_score(call.y, call.x)
      [] call.fn = "compute_key_score" -> compute_key_score(call.y, call.x)
      [] call.fn = "compute_energy_score" -> compute_energy_score(call.y, call.x)
      [] call.fn = "compute_spectral_score" -> compute_spectral_score(call.y, call.x)

\* C9 as stated: each of the four sub-scores is symmetric, and so is the
\* link weight.
C9_Stated ==
    /\ (call.done /\ call.fn \in {"compute_tempo_score", "compute_key_score",
                                  "compute_energy_score", "compute_spectral_score"})
         => call.out = Swapped
    /\ Returned("compute_link_weight")
         => call.out.weight = MakeLink(call.y, call.x, FALSE).weight

\* C9 amended: the key and spectral sub-scores are symmetric (the tempo and
\* energy sub-scores are not), so the weights of a->b and b->a differ exactly
\* by 0.35 * (tempo difference) + 0.25 * (energy difference).
C9_KeySpectralSymmetric ==
    /\ (call.done /\ call.fn \in {"compute_key_score", "compute_spectral_score"})
         => call.out = Swapped
    /\ Returned("compute_link_weight")
         => LET back == MakeLink(call.y, call.x, FALSE)
            IN  /\ call.out.keyScore = back.keyScore
                /\ call.out.spectralScore = back.spectralScore
                /\ call.out.weight - back.weight =
                       35 * (call.out.tempoScore - back.tempoScore)
                       + 25 * (call.out.energyScore - back.energyScore)

C9_Witness ==
    /\ Returned("compute_spectral_score")
    /\ call.x = 1200 /\ call.y = 1800 /\ call.out = 60

(***************************************************************************)
(* Graph specification                                                     *)
(***************************************************************************)
GraphInit ==
    /\ call = NoCall
    /\ \E count \in 0..MaxTracks :
          \E kind \in [1..count -> TrackKinds] :
             analysis = [t \in 1..count |->
                            TrackInput(t, kind[t].profile, kind[t].layout)]
    /\ phrases = <<>>
    /\ gpc = "extract"
    /\ outer = 0
    /\ run = 0
    /\ firstLinks = <<>>
    /\ todo = {}
    /\ DetectorIdle
    /\ DirectoryIdle
    /\ ServerIdle

GraphNext ==
    \/ ExtractPhrases
    \/ LinkPhrase
    \/ ReturnLinks
    \/ RunAgain

GraphSpec == GraphInit /\ [][GraphNext]_vars

(***************************************************************************)
(* Graph properties                                                        *)
(***************************************************************************)
\* phrase number i has had its links assigned by compute_all_links
Linked(i) == gpc = "done" \/ run >= 2 \/ (gpc = "links" /\ i <= outer)

\* the phrases (by number) that come next after phrase i in its source track
Successors(i) ==
    {j \in DOMAIN phrases :
        /\ phrases[j].sourceTrack = phrases[i].sourceTrack
        /\ phrases[j].trackIndex > phrases[i].trackIndex
        /\ \A m \in DOMAIN phrases :
              (phrases[m].sourceTrack = phrases[i].sourceTrack
                  /\ phrases[m].trackIndex > phrases[i].trackIndex)
              => phrases[j].trackIndex <= phrases[m].trackIndex}

Targets(i) == {phrases[i].links[n].targetId : n \in DOMAIN phrases[i].links}

\* C2: every node has at most MAX_LINKS_PER_PHRASE links, and once its links
\* are computed they contain a link to its successor in the source track.
C2_CapKeepsSuccessor ==
    \A i \in DOMAIN phrases :
        /\ Len(phrases[i].links) <= MAX_LINKS_PER_PHRASE
        /\ Linked(i) => \A j \in Successors(i) : phrases[j].id \in Targets(i)

\* a full links list whose original-sequence link is outweighed by at least
\* MAX_LINKS_PER_PHRASE other candidates
C2_Witness ==
    /\ gpc = "done"
    /\ \E i \in DOMAIN phrases :
          /\ Len(phrases[i].links) = MAX_LINKS_PER_PHRASE
          /\ Successors(i) # {}
          /\ phrases[i].links[1].isOriginalSequence
          /\ Cardinality({j \in DOMAIN phrases :
                 /\ j # i
                 /\ compute_link_weight(phrases[i], phrases[j]).weight
                        > phrases[i].links[1].weight}) >= MAX_LINKS_PER_PHRASE

\* C3: every link targets a node of the list, and never its own node.
C3_TargetsResolve ==
    \A i \in DOMAIN phrases :
        \A t \in Targets(i) :
            /\ \E j \in DOMAIN phrases : phrases[j].id = t
            /\ t # phrases[i].id

C3_Witness ==
    /\ gpc = "done"
    /\ Len(phrases) >= 3
    /\ \A i \in DOMAIN phrases : phrases[i].links # <<>>

\* C4: in a second run of compute_all_links over the list it returned, every
\* node gets exactly the links it had when the first run returned.
C4_RerunSameLinks ==
    run >= 2 =>
        \A i \in DOMAIN phrases :
            (gpc = "done" \/ i <= outer) => phrases[i].links = firstLinks[i]

C4_Witness ==
    /\ gpc = "done"
    /\ run = 2
    /\ \E i \in DOMAIN phrases : Len(phrases[i].links) >= 2

Extracted == gpc \in {"links", "done", "exit"}

NodesOf(track) == {i \in DOMAIN phrases : phrases[i].sourceTrack = track.path}

Positive(track) ==
    {k \in DOMAIN track.segments : track.segments[k].end > track.segments[k].start}

\* C10: extraction yields, for every track, exactly one node per segment of
\* positive duration (same index, start and end) and none for the others.
C10_SkipsOnlyDegenerate ==
    Extracted =>
        \A t \in DOMAIN analysis :
            LET track == analysis[t]
            IN  /\ Cardinality(NodesOf(track)) = Cardinality(Positive(track))
                /\ \A k \in Positive(track) :
                      \E i \in NodesOf(track) :
                          /\ phrases[i].trackIndex = k - 1
                          /\ phrases[i].startTime = track.segments[k].start
                          /\ phrases[i].endTime = track.segments[k].end
                /\ \A i \in NodesOf(track) : phrases[i].duration > 0

\* a track with one zero-duration segment loses exactly that one, next to
\* another track that is extracted in full
C10_Witness ==
    /\ Extracted
    /\ \E t \in DOMAIN analysis, u \in DOMAIN analysis :
          /\ t # u
          /\ Cardinality({k \in DOMAIN analysis[t].segments :
                 analysis[t].segments[k].end = analysis[t].segments[k].start}) = 1
          /\ Cardinality(NodesOf(analysis[t])) = Len(analysis[t].segments) - 1
          /\ Cardinality(NodesOf(analysis[t])) >= 2
          /\ Cardinality(NodesOf(analysis[u])) = Len(analysis[u].segments)
          /\ Len(analysis[u].segments) >= 3

(***************************************************************************)
(* BOUNDARY DETECTION (analyze_library.py, detect_phrases_and_segments)    *)
(* Times are integers, TimeUnit to the second.  The inputs are multiples   *)
(* of 420 units, so that gap * j / num_splits is an integer for every      *)
(* num_splits up to 7.  The onset envelope and its peak picking are the    *)
(* input novelty_peaks; a segment is modelled by its start and end.        *)
(***************************************************************************)
TimeUnit == 840 * 420

\* s[::n]
EveryNth(s, n) == [k \in 1..((Len(s) + n - 1) \div n) |-> s[(k - 1) * n + 1]]

\* sorted(S) for a set of numbers
RECURSIVE Sorted(_)
Sorted(S) ==
    IF S = {} THEN <<>>
    ELSE LET least == CHOOSE x \in S : \A y \in S : x <= y
         IN  <<least>> \o Sorted(S \ {least})

\* downbeats: every 4th beat; all beats when fewer than 4; [0.0] when none
Downbeats(beats) ==
    IF Len(beats) >= 4 THEN EveryNth(beats, 4)
    ELSE IF Len(beats) > 0 THEN beats
    ELSE <<0>>

\* bars per phrase with the fast-tempo test "tempo_estimate >= 150"
BarsPerPhrase_atleast(beats) ==
    IF Len(beats) >= 8
    THEN LET span == beats[Len(beats)] - beats[1]
         IN  IF span > 0 /\ 5 * span <= 2 * TimeUnit * (Len(beats) - 1) THEN 16 ELSE 8
    ELSE 8

\* bars per phrase from the mean beat interval: 60 / interval > 150 iff
\* 5 * (last - first) < 2 * (n - 1) seconds
BarsPerPhrase(beats) ==
    IF Len(beats) >= 8
    THEN LET span == beats[Len(beats)] - beats[1]
         IN  IF span > 0 /\ 5 * span < 2 * TimeUnit * (Len(beats) - 1) THEN 16 ELSE 8
    ELSE 8

\* downbeats[np.argmin(np.abs(downbeats - t))]: the first nearest downbeat
NearestDownbeat(dbs, t) ==
    dbs[CHOOSE n \in DOMAIN dbs :
            /\ \A m \in DOMAIN dbs : Abs(dbs[n] - t) <= Abs(dbs[m] - t)
            /\ \A m \in 1..(n - 1) : Abs(dbs[m] - t) > Abs(dbs[n] - t)]

\* one iteration of the merge loop without the snap to the nearest downbeat
MergeOne_raw(boundaries, dbs, peak_time) ==
    IF \A b \in boundaries : Abs(peak_time - b) > 2 * TimeUnit
    THEN boundaries \cup {peak_time}
    ELSE boundaries

\* one iteration of the merge loop over novelty_peaks
MergeOne(boundaries, dbs, peak_time) ==
    IF \A b \in boundaries : Abs(peak_time - b) > 2 * TimeUnit
    THEN LET nearest_downbeat == NearestDownbeat(dbs, peak_time)
         IN  IF Abs(nearest_downbeat - peak_time) < TimeUnit
             THEN boundaries \cup {nearest_downbeat}
             ELSE boundaries \cup {peak_time}
    ELSE boundaries

\* "Add start if needed" without "Add end if needed"
WithStartEnd_noend(times, dur) ==
    IF Len(times) = 0 \/ times[1] > 2 * TimeUnit THEN <<0>> \o times ELSE times

\* "Add start if needed", "Add end if needed"
WithStartEnd(times, dur) ==
    LET started == IF Len(times) = 0 \/ times[1] > 2 * TimeUnit
                   THEN <<0>> \o times ELSE times
    IN  IF started[Len(started)] < dur - 2 * TimeUnit
        THEN Append(started, dur) ELSE started

\* the inserted boundaries with num_splits rounded up
SplitPoints_ceil(dbs, from, to) ==
    LET gap == to - from
        num_splits == (gap + 15 * TimeUnit - 1) \div (15 * TimeUnit)
        snapped(split_time) ==
            LET nearest == NearestDownbeat(dbs, split_time)
            IN  IF Abs(nearest - split_time) < 2 * TimeUnit THEN nearest ELSE split_time
    IN  IF gap > 30 * TimeUnit
        THEN {snapped(from + (gap * j) \div num_splits) : j \in 1..(num_splits - 1)}
        ELSE {}

\* the inserted boundaries with the test "gap > 45.0"
SplitPoints_late(dbs, from, to) ==
    LET gap == to - from
        num_splits == gap \div (15 * TimeUnit)
        snapped(split_time) ==
            LET nearest == NearestDownbeat(dbs, split_time)
            IN  IF Abs(nearest - split_time) < 2 * TimeUnit THEN nearest ELSE split_time
    IN  IF gap > 45 * TimeUnit
        THEN {snapped(from + (gap * j) \div num_splits) : j \in 1..(num_splits - 1)}
        ELSE {}

\* the boundaries inserted between two consecutive boundaries from < to
SplitPoints(dbs, from, to) ==
    LET gap == to - from
        num_splits == gap \div (15 * TimeUnit)
        snapped(split_time) ==
            LET nearest == NearestDownbeat(dbs, split_time)
            IN  IF Abs(nearest - split_time) < 2 * TimeUnit THEN nearest ELSE split_time
    IN  IF gap > 30 * TimeUnit
        THEN {snapped(from + (gap * j) \div num_splits) : j \in 1..(num_splits - 1)}
        ELSE {}

\* "Post-process: split any segments > 30s", then sorted(set(...))
SplitLongGaps(times, dbs) ==
    Sorted(Range(times) \cup
           UNION {SplitPoints(dbs, times[n], times[n + 1]) : n \in 1..(Len(times) - 1)})

\* the segment list: one segment per pair of consecutive boundaries
SegmentsOf(times) ==
    [n \in 1..(Len(times) - 1) |-> [start |-> times[n], end |-> times[n + 1]]]

\* bar-based boundaries: downbeats, bars per phrase, downbeats[::bars]
BarBoundaries ==
    /\ dpc = "bars"
    /\ downbeats' = Downbeats(beat_times)
    /\ bars_per_phrase' = BarsPerPhrase(beat_times)
    /\ all_boundaries' = Range(EveryNth(downbeats', bars_per_phrase'))
    /\ peak' = 0
    /\ dpc' = "merge"
    /\ UNCHANGED <<serverVars, call, graphVars, directoryVars, duration, beat_times, novelty_peaks,
                   phrase_times, segments>>

\* the merge loop takes the next novelty peak
MergePeak ==
    /\ dpc = "merge"
    /\ peak < Len(novelty_peaks)
    /\ all_boundaries' = MergeOne(all_boundaries, downbeats, novelty_peaks[peak + 1])
    /\ peak' = peak + 1
    /\ UNCHANGED <<serverVars, call, graphVars, directoryVars, duration, beat_times, novelty_peaks, downbeats,
                   bars_per_phrase, phrase_times, segments, dpc>>

\* phrase_times = sorted(all_boundaries), with start and end added if needed
EnsureStartEnd ==
    /\ dpc = "merge"
    /\ peak = Len(novelty_peaks)
    /\ phrase_times' = WithStartEnd(Sorted(all_boundaries), duration)
    /\ dpc' = "split"
    /\ UNCHANGED <<serverVars, call, graphVars, directoryVars, duration, beat_times, novelty_peaks, downbeats,
                   bars_per_phrase, all_boundaries, peak, segments>>

\* the post-processing pass over the gaps
SplitLong ==
    /\ dpc = "split"
    /\ phrase_times' = SplitLongGaps(phrase_times, downbeats)
    /\ dpc' = "classify"
    /\ UNCHANGED <<serverVars, call, graphVars, directoryVars, duration, beat_times, novelty_peaks, downbeats,
                   bars_per_phrase, all_boundaries, peak, segments>>

\* the segment loop, and the return
BuildSegments ==
    /\ dpc = "classify"
    /\ segments' = SegmentsOf(phrase_times)
    /\ dpc' = "returned"
    /\ UNCHANGED <<serverVars, call, graphVars, directoryVars, duration, beat_times, novelty_peaks, downbeats,
                   bars_per_phrase, all_boundaries, peak, phrase_times>>

(***************************************************************************)
(* Detector inputs: a track length, a regular beat grid and novelty peaks  *)
(***************************************************************************)
MaxDuration == 100

MaxBeats == 128

\* seconds
DurationInputs == {0, 1, 20, 64, MaxDuration}

\* first beat: 0 s, 0.5 s, 2.5 s
FirstBeatInputs == {0, TimeUnit \div 2, (5 * TimeUnit) \div 2}

\* beat interval: 160, 150, 140 and 120 BPM
IntervalInputs ==
    {(3 * TimeUnit) \div 8, (2 * TimeUnit) \div 5, (3 * TimeUnit) \div 7, TimeUnit \div 2}

BeatCountInputs == {0, 3, 8, 64, MaxBeats}

\* tenths of a second
PeakInputs == {96, 170, 243, 475}

BeatGrid(first, interval, count) == [k \in 1..count |-> first + (k - 1) * interval]

\* peaks lie at least 4 s inside the track (the peak loop's range)
PeaksFor(chosen, dur) ==
    Sorted({(p * TimeUnit) \div 10 : p \in {q \in chosen : q + 40 < 10 * dur}})

DetectorInit ==
    /\ call = NoCall
    /\ GraphIdle
    /\ DirectoryIdle
    /\ \E dur \in DurationInputs, first \in FirstBeatInputs,
          interval \in IntervalInputs, count \in BeatCountInputs,
          chosen \in SUBSET PeakInputs :
          /\ count = 0 => (first = 0 /\ interval = TimeUnit \div 2)
          /\ count > 0 => first + (count - 1) * interval < dur * TimeUnit
          /\ duration = dur * TimeUnit
          /\ beat_times = BeatGrid(first, interval, count)
          /\ novelty_peaks = PeaksFor(chosen, dur)
    /\ downbeats = <<>>
    /\ bars_per_phrase = 0
    /\ all_boundaries = {}
    /\ peak = 0
    /\ phrase_times = <<>>
    /\ segments = <<>>
    /\ dpc = "bars"
    /\ ServerIdle

DetectorNext ==
    \/ BarBoundaries
    \/ MergePeak
    \/ EnsureStartEnd
    \/ SplitLong
    \/ BuildSegments

DetectorSpec == DetectorInit /\ [][DetectorNext]_vars

(***************************************************************************)
(* Detector properties                                                     *)
(***************************************************************************)
\* C1: the returned segments are contiguous and non-overlapping and cover
\* the track: the first starts at 0 and the last ends at the duration.
C1_Stated ==
    dpc = "returned" =>
        /\ \A n \in DOMAIN segments : segments[n].start < segments[n].end
        /\ \A n \in 1..(Len(segments) - 1) : segments[n].end = segments[n + 1].start
        /\ duration > 0 =>
              /\ segments # <<>>
              /\ segments[1].start = 0
              /\ segments[Len(segments)].end = duration

\* the beat grid is faster than 150 BPM: 60 / interval > 150
FasterThan150 ==
    /\ Len(beat_times) >= 2
    /\ 2 * TimeUnit > 5 * (beat_times[2] - beat_times[1])

\* every N-th downbeat, counted from the first
EveryNthDownbeat(N) == {downbeats[k] : k \in {m \in DOMAIN downbeats : (m - 1) % N = 0}}

\* C11: with a tempo estimate (at least 8 beats), bars_per_phrase is 16 exactly
\* when the estimate is strictly above 150 BPM and 8 otherwise; the bar-based
\* boundaries are every 8th (resp. 16th) downbeat, also for a track too short
\* for an estimate.
C11_BarsPerPhrase ==
    dpc \in {"merge", "split", "classify", "returned"} =>
        /\ bars_per_phrase = IF Len(beat_times) >= 8 /\ FasterThan150 THEN 16 ELSE 8
        /\ (dpc = "merge" /\ peak = 0) =>
              /\ all_boundaries = EveryNthDownbeat(bars_per_phrase)
              /\ all_boundaries = EveryNthDownbeat(IF FasterThan150 THEN 16 ELSE 8)

\* 64 beats at exactly 150 BPM: 16 downbeats, 8 bars per phrase, 2 boundaries
C11_Witness ==
    /\ dpc = "merge" /\ peak = 0
    /\ Len(beat_times) = 64
    /\ 5 * (beat_times[2] - beat_times[1]) = 2 * TimeUnit
    /\ bars_per_phrase = 8
    /\ Cardinality(all_boundaries) = 2

C13_ScoresInRange ==
    \A i \in DOMAIN phrases :
        \A n \in DOMAIN phrases[i].links :
            LET link == phrases[i].links[n]
            IN  /\ link.weight >= 0 /\ link.weight <= 10000
                /\ \A score \in {link.tempoScore, link.keyScore,
                                  link.energyScore, link.spectralScore} :
                       score >= 0 /\ score <= 100

\* links exist between phrases without tempo, key and centroid, and between
\* phrases that match closely
C13_Witness ==
    /\ gpc = "done"
    /\ \E i \in DOMAIN phrases :
          \E n \in DOMAIN phrases[i].links :
              /\ phrases[i].tempo <= 0 /\ phrases[i].key = <<>>
              /\ phrases[i].spectralCentroid <= 0
              /\ phrases[i].links[n].weight < 6000
    /\ \E i \in DOMAIN phrases :
          \E n \in DOMAIN phrases[i].links : phrases[i].links[n].weight > 9500

\* the phrase a link points to
TargetOf(link) == phrases[CHOOSE j \in DOMAIN phrases : phrases[j].id = link.targetId]

\* C20: every stored link's weight is 0.35 tempoScore + 0.25 keyScore
\* + 0.25 energyScore + 0.15 spectralScore of its own sub-scores, and its
\* suggestedTransition is crossfade above 0.8, else eqSwap above 0.6, else
\* filter above 0.4 when the energies differ by more than 0.3, else cut.
C20_LinkConsistent ==
    \A i \in DOMAIN phrases :
        \A n \in DOMAIN phrases[i].links :
            LET link == phrases[i].links[n]
                jump == Abs(TargetOf(link).energy - phrases[i].energy)
            IN  /\ link.weight = 35 * link.tempoScore + 25 * link.keyScore
                                  + 25 * link.energyScore + 15 * link.spectralScore
                /\ link.suggestedTransition =
                       IF link.weight > 8000 THEN "crossfade"
                       ELSE IF link.weight > 6000 THEN "eqSwap"
                       ELSE IF link.weight > 4000 /\ jump > 30 THEN "filter"
                       ELSE "cut"

\* all four transitions occur among the stored links
C20_Witness ==
    /\ gpc = "done"
    /\ \A transition \in {"crossfade", "eqSwap", "filter", "cut"} :
          \E i \in DOMAIN phrases :
              \E n \in DOMAIN phrases[i].links :
                  phrases[i].links[n].suggestedTransition = transition

(***************************************************************************)
(* Scorer properties: key table, energy boundary, fallbacks                *)
(***************************************************************************)
\* the pitch class (0 = C .. 11 = B) of a pitch-class name, sharp or flat
PitchClass(k) ==
    CASE k = <<"D", "b">> -> 1
      [] k = <<"E", "b">> -> 3
      [] k = <<"G", "b">> -> 6
      [] k = <<"A", "b">> -> 8
      [] k = <<"B", "b">> -> 10
      [] OTHER -> IndexOf(KEY_NAMES, k)

\* position in the circle of fifths C G D A E B F# C# G# D# A# F
FifthsPosition(k) == (7 * PitchClass(k)) % 12

FifthsDistance(k1, k2) ==
    LET d == Abs(FifthsPosition(k1) - FifthsPosition(k2))
    IN  IF d <= 12 - d THEN d ELSE 12 - d

PitchClassNames ==
    Range(KEY_NAMES) \cup
    { <<"D", "b">>, <<"E", "b">>, <<"G", "b">>, <<"A", "b">>, <<"B", "b">> }

\* C17 as stated: for two pitch-class names the key score is the table
\* [1.0, 0.9, 0.8, 0.6, 0.4, 0.2, 0.1] at their circle-of-fifths distance.
C17_Stated ==
    (Returned("compute_key_score")
        /\ call.x \in PitchClassNames /\ call.y \in PitchClassNames)
    => call.out = <<100, 90, 80, 60, 40, 20, 10>>[FifthsDistance(call.x, call.y) + 1]

\* C18 as stated: an energy difference of exactly -0.1 scores 0.6.
C18_Stated ==
    (Returned("compute_energy_score") /\ call.y - call.x = -10) => call.out = 60

\* C18 amended: an energy difference of exactly -0.1 scores 0.85, as every
\* difference of at most 0.1 in size does, and no pair of energies scores 0.6.
C18_Boundary ==
    Returned("compute_energy_score")
    => /\ call.y - call.x = -10 => call.out = 85
       /\ Abs(call.y - call.x) <= 10 => call.out = 85
       /\ call.out # 60

C18_Witness ==
    /\ Returned("compute_energy_score")
    /\ call.x = 30 /\ call.y = 20 /\ call.out = 85

\* key names that are neither missing nor a pitch-class name in any spelling
UnknownKeys == { <<"H">>, <<"A", "m">> }

\* C19 as stated: a tempo <= 0 gives tempo score 0.5, a centroid <= 0 gives
\* spectral score 0.5, and a missing or unrecognized key on either side
\* gives key score 0.6.
C19_Stated ==
    /\ (Returned("compute_tempo_score") /\ (call.x <= 0 \/ call.y <= 0))
         => call.out = 50
    /\ (Returned("compute_spectral_score") /\ (call.x <= 0 \/ call.y <= 0))
         => call.out = 50
    /\ (Returned("compute_key_score")
            /\ (call.x \in UnknownKeys \cup {<<>>} \/ call.y \in UnknownKeys \cup {<<>>}))
         => call.out = 60

\* C19 amended: as stated for tempo and centroid; a missing key on either
\* side gives key score 0.6, and so does an unrecognized key against a
\* different key, but an unrecognized key against itself gives 1.0; the pair
\* still gets a link whose weight is built from these values.
C19_Fallbacks ==
    /\ (Returned("compute_tempo_score") /\ (call.x <= 0 \/ call.y <= 0))
         => call.out = 50
    /\ (Returned("compute_spectral_score") /\ (call.x <= 0 \/ call.y <= 0))
         => call.out = 50
    /\ Returned("compute_key_score")
         => /\ (call.x = <<>> \/ call.y = <<>>) => call.out = 60
            /\ ((call.x \in UnknownKeys \/ call.y \in UnknownKeys)
                    /\ call.x # <<>> /\ call.y # <<>> /\ call.x # call.y)
                 => call.out = 60
            /\ (call.x \in UnknownKeys /\ call.x = call.y) => call.out = 100
    /\ Returned("compute_link_weight")
         => /\ (call.x.tempo <= 0 \/ call.y.tempo <= 0) => call.out.tempoScore = 50
            /\ (call.x.spectralCentroid <= 0 \/ call.y.spectralCentroid <= 0)
                 => call.out.spectralScore = 50
            /\ (call.x.key = <<>> \/ call.y.key = <<>>) => call.out.keyScore = 60
            /\ call.out.weight = 35 * call.out.tempoScore + 25 * call.out.keyScore
                                  + 25 * call.out.energyScore + 15 * call.out.spectralScore

\* an unrecognized key against a pitch-class name
C19_Witness ==
    /\ Returned("compute_key_score")
    /\ call.x = <<"H">> /\ call.y = <<"C">> /\ call.out = 60

(***************************************************************************)
(* The outer loop of compute_all_links run in any order.  The sequential   *)
(* run comes first and leaves its result in firstLinks; the same list,     *)
(* with its links empty as after extraction, is then handed to workers     *)
(* that each take outer-loop indices nobody has taken yet.                 *)
(***************************************************************************)
WithoutLinks(ps) == [n \in DOMAIN ps |-> [ps[n] EXCEPT !.links = <<>>]]

\* the phrase list goes to the workers
StartWorkers ==
    /\ gpc = "done"
    /\ run = 1
    /\ phrases' = WithoutLinks(phrases)
    /\ todo' = DOMAIN phrases
    /\ gpc' = "workers"
    /\ UNCHANGED <<serverVars, call, analysis, outer, run, firstLinks, detectorVars, directoryVars>>

\* some worker runs the outer-loop body for an index i that is still to do
WorkerLinkPhrase ==
    /\ gpc = "workers"
    /\ \E i \in todo :
          /\ phrases' = [phrases EXCEPT ![i].links = NewLinks(phrases, i)]
          /\ todo' = todo \ {i}
    /\ UNCHANGED <<serverVars, call, analysis, gpc, outer, run, firstLinks, detectorVars,
                   directoryVars>>

\* all indices are done
JoinWorkers ==
    /\ gpc = "workers"
    /\ todo = {}
    /\ gpc' = "joined"
    /\ UNCHANGED <<serverVars, call, analysis, phrases, outer, run, firstLinks, todo,
                   detectorVars, directoryVars>>

\* tracks with few segments, so that every order of the loop can be explored
ParallelInit ==
    /\ call = NoCall
    /\ \E count \in 0..MaxTracks :
          \E profile \in [1..count -> Profiles],
             layout \in [1..count -> {l \in Layouts : l.n < MaxSegs}] :
             analysis = [t \in 1..count |-> TrackInput(t, profile[t], layout[t])]
    /\ phrases = <<>>
    /\ gpc = "extract"
    /\ outer = 0
    /\ run = 0
    /\ firstLinks = <<>>
    /\ todo = {}
    /\ DetectorIdle
    /\ DirectoryIdle
    /\ ServerIdle

ParallelNext ==
    \/ ExtractPhrases
    \/ LinkPhrase
    \/ ReturnLinks
    \/ StartWorkers
    \/ WorkerLinkPhrase
    \/ JoinWorkers

ParallelSpec == ParallelInit /\ [][ParallelNext]_vars

Reversed(ps) == [n \in DOMAIN ps |-> ps[Len(ps) + 1 - n]]

\* the first element moved to the end
Rotated(ps) == [n \in DOMAIN ps |-> ps[(n % Len(ps)) + 1]]

Reordered(ps, order) == IF order = "reversed" THEN Reversed(ps) ELSE Rotated(ps)

\* compute_all_links is called on the reordered list
RunReordered ==
    /\ gpc = "done"
    /\ run = 1
    /\ \E order \in {"reversed", "rotated"} : phrases' = Reordered(phrases, order)
    /\ gpc' = "links"
    /\ outer' = 0
    /\ run' = 2
    /\ UNCHANGED <<serverVars, call, analysis, firstLinks, todo, detectorVars, directoryVars>>

ReorderNext ==
    \/ ExtractPhrases
    \/ LinkPhrase
    \/ ReturnLinks
    \/ RunReordered

ReorderSpec == GraphInit /\ [][ReorderNext]_vars

\* the links the first run gave to phrase p
FirstLinksOf(p) == firstLinks[CHOOSE n \in DOMAIN firstLinks : Uuid(n) = p.id]

\* the (target, weight) pairs of a links list
TargetWeights(links) == {<<links[n].targetId, links[n].weight>> : n \in DOMAIN links}

\* the (isOriginalSequence, weight) ranks of a links list, in order
Ranks(links) == [n \in DOMAIN links |-> <<links[n].isOriginalSequence, links[n].weight>>]

\* the second run has returned
Rerun == run = 2 /\ gpc = "done"

\* C16 as stated: on the reordered list every node gets the same set of
\* link targets with the same weights as on the original list.
C16_Stated ==
    Rerun =>
        \A i \in DOMAIN phrases :
            TargetWeights(phrases[i].links) = TargetWeights(FirstLinksOf(phrases[i]))

\* C16 amended: on the reordered list every node gets links of the same
\* ranks (isOriginalSequence, weight) in the same order, the same
\* original-sequence link, and the same weight for every target it links to
\* in both runs; a node with at most MAX_LINKS_PER_PHRASE candidates gets the
\* same set of targets with the same weights.
C16_ReorderedSameRanks ==
    Rerun =>
        \A i \in DOMAIN phrases :
            LET now == phrases[i].links
                first == FirstLinksOf(phrases[i])
            IN  /\ Ranks(now) = Ranks(first)
                /\ \A n \in DOMAIN now, m \in DOMAIN first :
                       now[n].targetId = first[m].targetId => now[n] = first[m]
                /\ \A n \in DOMAIN now :
                       now[n].isOriginalSequence => now[n] \in Range(first)
                /\ Len(Candidates(phrases, i)) <= MAX_LINKS_PER_PHRASE
                       => TargetWeights(now) = TargetWeights(first)

\* a node that keeps MAX_LINKS_PER_PHRASE of more candidates, and keeps other
\* targets on the reordered list than on the original one
C16_Witness ==
    /\ Rerun
    /\ \E i \in DOMAIN phrases :
          /\ Len(Candidates(phrases, i)) > MAX_LINKS_PER_PHRASE
          /\ Ranks(phrases[i].links) = Ranks(FirstLinksOf(phrases[i]))
          /\ TargetWeights(phrases[i].links) # TargetWeights(FirstLinksOf(phrases[i]))

(***************************************************************************)
(* COLLECTION-WIDE RUN (analyze_library.py, analyze_directory)             *)
(* An audio file is its name and whether librosa.load succeeds on it.  A   *)
(* track analysis is the dict analyze_track returns, reduced to its path.  *)
(***************************************************************************)
MaxFiles == 4

\* analyze_track as a list: empty for None (load failed), else the dict
analyze_track(audio_path) ==
    IF audio_path.loads THEN << [path |-> audio_path.name] >> ELSE <<>>

\* one iteration of the loop, with the load error propagating to the caller
AnalyzeFile_raise ==
    /\ apc = "loop"
    /\ file_index < Len(audio_files)
    /\ results' = results \o analyze_track(audio_files[file_index + 1])
    /\ file_index' = file_index + 1
    /\ apc' = IF audio_files[file_index + 1].loads THEN apc ELSE "raised"
    /\ UNCHANGED <<serverVars, call, graphVars, detectorVars, audio_files>>

\* one iteration of the loop: analyze_track, and append when it is truthy
AnalyzeFile ==
    /\ apc = "loop"
    /\ file_index < Len(audio_files)
    /\ results' = results \o analyze_track(audio_files[file_index + 1])
    /\ file_index' = file_index + 1
    /\ UNCHANGED <<serverVars, call, graphVars, detectorVars, audio_files, apc>>

\* json.dump(results, f) and return
SaveResults ==
    /\ apc = "loop"
    /\ file_index = Len(audio_files)
    /\ apc' = "saved"
    /\ UNCHANGED <<serverVars, call, graphVars, detectorVars, audio_files, results, file_index>>

DirectoryInit ==
    /\ call = NoCall
    /\ GraphIdle
    /\ DetectorIdle
    /\ \E count \in 0..MaxFiles :
          \E loads \in [1..count -> BOOLEAN] :
             audio_files = [n \in 1..count |-> [name |-> n, loads |-> loads[n]]]
    /\ results = <<>>
    /\ file_index = 0
    /\ apc = "loop"
    /\ ServerIdle

DirectoryNext ==
    \/ AnalyzeFile
    \/ SaveResults

\* the loop is sequential code that keeps running: weak fairness
DirectorySpec == DirectoryInit /\ [][DirectoryNext]_vars /\ WF_vars(DirectoryNext)

\* the names, in collection order, of the files among the first n that load
LoadedAmong(n) ==
    LET loaded == SelectSeq(SubSeq(audio_files, 1, n), LAMBDA f : f.loads)
    IN  [k \in DOMAIN loaded |-> loaded[k].name]

ResultPaths == [k \in DOMAIN results |-> results[k].path]

\* C15: a file whose audio fails to load is the only one left out: the
\* results hold, in collection order, every file gone through so far that
\* loads, and the run goes through all files and saves.
C15_LoadFailureIsolated ==
    /\ [](/\ ResultPaths = LoadedAmong(file_index)
          /\ apc = "saved" => file_index = Len(audio_files))
    /\ <>(apc = "saved")

\* a run saved with one file left out and a later file analyzed
C15_Witness ==
    /\ apc = "saved"
    /\ Len(audio_files) >= 3
    /\ ~audio_files[2].loads
    /\ ResultPaths = <<1, 3>> \o [k \in 1..(Len(audio_files) - 3) |-> k + 3]

(***************************************************************************)
(* Graph properties: which candidates become links, and in what order      *)
(***************************************************************************)
\* the nodes whose links are looked at in a state: the node the outer loop has
\* just assigned, and every node once compute_all_links has returned
Settled ==
    IF gpc = "done" THEN DOMAIN phrases
    ELSE IF gpc = "links" /\ outer >= 1 THEN {outer}
    ELSE {}

\* the number, in the phrases list, of the phrase with this id
PositionOf(id) == CHOOSE j \in DOMAIN phrases : phrases[j].id = id

WeightBetween(i, j) == compute_link_weight(phrases[i], phrases[j]).weight

\* the other phrases (by number) that qualify as link targets of phrase i:
\* its successor in the source track, and every phrase scoring at least 0.3
Qualifying(i) ==
    Successors(i) \cup {j \in DOMAIN phrases \ {i} : WeightBetween(i, j) >= 3000}

\* the qualifying phrases without a link from phrase i
Dropped(i) == {j \in Qualifying(i) : phrases[j].id \notin Targets(i)}

\* the weights of the links of phrase i that are not original-sequence
OtherWeights(i) ==
    {phrases[i].links[n].weight :
        n \in {m \in DOMAIN phrases[i].links : ~phrases[i].links[m].isOriginalSequence}}

\* C21: a link that is not original-sequence has weight >= 0.3, every link
\* goes to a qualifying candidate, and a node with at most 20 qualifying
\* candidates links to every one of them.
C21_IncludedIff ==
    \A i \in Settled :
        /\ \A w \in OtherWeights(i) : w >= 3000
        /\ \A qualifying \in {{phrases[j].id : j \in Qualifying(i)}} :
              /\ Targets(i) \subseteq qualifying
              /\ Cardinality(qualifying) <= 20 => Targets(i) = qualifying

\* a node that links to all of its candidates but the ones scoring below 0.3
C21_Witness ==
    /\ gpc = "done"
    /\ \E i \in DOMAIN phrases :
          /\ Len(phrases[i].links) >= 3
          /\ Len(phrases[i].links) < 20
          /\ Len(phrases[i].links) = Cardinality(Qualifying(i))
          /\ \E j \in DOMAIN phrases \ {i} :
                 WeightBetween(i, j) < 3000 /\ phrases[j].id \notin Targets(i)

\* C22: the original-sequence link comes first and the other links follow
\* in non-increasing weight; with more than 20 qualifying candidates 20 are
\* kept, the dropped ones are not the successor and weigh no more than any
\* kept link that is not original-sequence.
C22_OrderAndCap ==
    \A i \in Settled :
        /\ \A links \in {phrases[i].links} :
              \A n \in 1..(Len(links) - 1) :
                  /\ links[n + 1].isOriginalSequence => links[n].isOriginalSequence
                  /\ links[n].isOriginalSequence = links[n + 1].isOriginalSequence
                        => links[n].weight >= links[n + 1].weight
        /\ \A dropped \in {Dropped(i)} :
              /\ dropped # {} => Len(phrases[i].links) = 20
              /\ dropped \cap Successors(i) = {}
              /\ \A w \in {WeightBetween(i, j) : j \in dropped} :
                     \A kept \in OtherWeights(i) : w <= kept

\* a node that lost a candidate to the cap, kept its successor and kept a
\* heavier link than the successor's
C22_Witness ==
    /\ gpc = "done"
    /\ \E i \in DOMAIN phrases :
          /\ Len(phrases[i].links) = 20
          /\ phrases[i].links[1].isOriginalSequence
          /\ phrases[i].links[2].weight > phrases[i].links[1].weight
          /\ phrases[i].links[2].weight > phrases[i].links[20].weight
          /\ Dropped(i) # {}

\* C23: links of equal isOriginalSequence and equal weight stand in the
\* order of their targets in the phrases list, and a dropped candidate tied
\* with a kept link comes later in the phrases list than that link's target.
C23_TiesInListOrder ==
    \A i \in Settled :
        \A links \in {phrases[i].links} :
            /\ \A n \in 1..(Len(links) - 1) :
                   (/\ links[n].isOriginalSequence = links[n + 1].isOriginalSequence
                    /\ links[n].weight = links[n + 1].weight)
                   => PositionOf(links[n].targetId) < PositionOf(links[n + 1].targetId)
            /\ \A j \in Dropped(i) :
                   \A n \in {m \in DOMAIN links :
                                /\ ~links[m].isOriginalSequence
                                /\ links[m].weight = WeightBetween(i, j)} :
                       PositionOf(links[n].targetId) < j

\* a node whose last kept link is tied with a dropped candidate
C23_Witness ==
    /\ gpc = "done"
    /\ \E i \in DOMAIN phrases :
          /\ Len(phrases[i].links) = 20
          /\ phrases[i].links[19].weight = phrases[i].links[20].weight
          /\ \E j \in Dropped(i) : WeightBetween(i, j) = phrases[i].links[20].weight

\* the numbers of the phrases of a track, in trackIndex order
TrackOrder(path) ==
    LET nodes == {j \in DOMAIN phrases : phrases[j].sourceTrack = path}
        indices == Sorted({phrases[j].trackIndex : j \in nodes})
    IN  [k \in DOMAIN indices |->
            CHOOSE j \in nodes : phrases[j].trackIndex = indices[k]]

\* phrase i has a link to phrase j that is marked original-sequence
OriginalLink(i, j) ==
    \E n \in DOMAIN phrases[i].links :
        /\ phrases[i].links[n].targetId = phrases[j].id
        /\ phrases[i].links[n].isOriginalSequence

\* C24: a link is original-sequence exactly when its target is the next
\* phrase of the same track in trackIndex order; every phrase but the last
\* of its track has exactly one such link, the last has none, and in the
\* final graph the original-sequence links chain each track's phrases in
\* track order.
C24_OriginalSequence ==
    /\ \A i \in Settled :
          \A links \in {phrases[i].links}, next \in {Successors(i)} :
              \A marked \in {{n \in DOMAIN links : links[n].isOriginalSequence}} :
                  /\ {links[n].targetId : n \in marked} = {phrases[j].id : j \in next}
                  /\ Cardinality(marked) = IF next = {} THEN 0 ELSE 1
                  /\ \A j \in next : phrases[j].sourceTrack = phrases[i].sourceTrack
    /\ gpc = "done" =>
          \A t \in DOMAIN analysis :
              \A order \in {TrackOrder(analysis[t].path)} :
                  /\ \A k \in 1..(Len(order) - 1) : OriginalLink(order[k], order[k + 1])
                  /\ \A k \in DOMAIN order, j \in DOMAIN phrases :
                         OriginalLink(order[k], j) => (k < Len(order) /\ j = order[k + 1])

\* a track that lost a segment (trackIndex 0, 2) next to a full track
C24_Witness ==
    /\ gpc = "done"
    /\ \E i \in DOMAIN phrases, j \in DOMAIN phrases :
          /\ phrases[i].trackIndex = 0 /\ phrases[j].trackIndex = 2
          /\ OriginalLink(i, j)
    /\ \E t \in DOMAIN analysis : Len(TrackOrder(analysis[t].path)) = MaxSegs

\* C30: a step of compute_all_links leaves the phrases list and every field
\* but links as they were, changes the links of no node but the one at the
\* outer index, and gives that node a list that does not depend on the links
\* it had.
C30_OnlyLinksChange ==
    [][(gpc = "links" /\ gpc' \in {"links", "done"})
        => /\ WithoutLinks(phrases') = WithoutLinks(phrases)
           /\ \A i \in DOMAIN phrases :
                 phrases'[i].links # phrases[i].links => i = outer + 1
           /\ outer' = outer + 1
                 => phrases'[outer + 1].links = NewLinks(WithoutLinks(phrases), outer + 1)]_vars

\* the second run is replacing links while two tracks are in the list
C30_Witness ==
    /\ gpc = "links"
    /\ run = 2
    /\ outer >= 2
    /\ \E i \in DOMAIN phrases, j \in DOMAIN phrases :
          /\ i < j
          /\ phrases[i].sourceTrack # phrases[j].sourceTrack
          /\ phrases[i].trackIndex > phrases[j].trackIndex

(***************************************************************************)
(* The socket server: run_server / handle_connection / process_request     *)
(***************************************************************************)
\* A JSON text is modelled as the byte sequence "{", its command, "}"; a
\* message on the wire is a JSON text followed by the null byte.  The audio
\* of generate_chunk is one opaque block of float32 samples.
NUL == "NUL"

MaxRequests == 2

Commands == {"generate", "get_styles", "set_controls", "reset"}

\* json.dumps(request).encode('utf-8') + b'\0'
Encode(command) == <<"{", command, "}", NUL>>

\* json.loads(message.decode('utf-8')): the request, or the error raised
Decode(message) ==
    IF Len(message) = 3 /\ message[1] = "{" /\ message[3] = "}"
    THEN [command |-> message[2]]
    ELSE [error |-> "JSONDecodeError"]

\* the position of the first null byte in bytes, 0 when there is none
FirstNul(bytes) ==
    IF \E n \in DOMAIN bytes : bytes[n] = NUL
    THEN CHOOSE n \in DOMAIN bytes :
            bytes[n] = NUL /\ \A m \in 1..(n - 1) : bytes[m] # NUL
    ELSE 0

\* what process_request returns
process_request(request) ==
    IF request.command = "get_styles" THEN [json |-> "styles"]
    ELSE IF request.command = "set_controls" THEN [json |-> "status"]
    ELSE IF request.command = "generate" THEN [audio |-> "float32"]
    ELSE [json |-> "error"]

\* the byte blocks handed to conn.sendall for one response
Sent(response) ==
    IF "audio" \in DOMAIN response
    THEN <<"length", response.audio>>
    ELSE <<"{", response.json, "}", NUL>>

\* the connection loop's body after "buffer += data"
Handle(bytes, count, out) ==
    IF FirstNul(bytes) = 0
    THEN [buffer |-> bytes, request_count |-> count, outbox |-> out]
    ELSE LET message == SubSeq(bytes, 1, FirstNul(bytes) - 1)
             rest == SubSeq(bytes, FirstNul(bytes) + 1, Len(bytes))
         IN  IF "error" \in DOMAIN Decode(message)
             THEN [buffer |-> rest, request_count |-> count, outbox |-> out]
             ELSE [buffer |-> rest, request_count |-> count + 1,
                   outbox |-> Append(out, Sent(process_request(Decode(message))))]

\* server.accept() returns the client's connection
Accept ==
    /\ spc = "accept"
    /\ spc' = "recv"
    /\ client' = "connected"
    /\ buffer' = <<>>
    /\ request_count' = 0
    /\ UNCHANGED <<requested, wire, outbox, call, graphVars, detectorVars, directoryVars>>

\* the client sends one request
ClientSend ==
    /\ client = "connected"
    /\ Len(requested) < MaxRequests
    /\ \E command \in Commands :
          /\ requested' = Append(requested, command)
          /\ wire' = wire \o Encode(command)
    /\ UNCHANGED <<spc, client, buffer, request_count, outbox,
                   call, graphVars, detectorVars, directoryVars>>

\* the client closes its socket
ClientClose ==
    /\ client = "connected"
    /\ client' = "closed"
    /\ UNCHANGED <<spc, requested, wire, buffer, request_count, outbox,
                   call, graphVars, detectorVars, directoryVars>>

\* one pass of the connection loop: recv returns some of the bytes in flight
ServerRecv ==
    /\ spc = "recv"
    /\ wire # <<>>
    /\ \E n \in 1..Len(wire) :
          LET data == SubSeq(wire, 1, n)
              after == Handle(buffer \o data, request_count, outbox)
          IN  /\ wire' = SubSeq(wire, n + 1, Len(wire))
              /\ buffer' = after.buffer
              /\ request_count' = after.request_count
              /\ outbox' = after.outbox
    /\ UNCHANGED <<spc, client, requested, call, graphVars, detectorVars, directoryVars>>

\* recv returns b"": the loop ends and run_server closes the connection
ServerRecvEnd ==
    /\ spc = "recv"
    /\ wire = <<>>
    /\ client = "closed"
    /\ spc' = "closed"
    /\ UNCHANGED <<client, requested, wire, buffer, request_count, outbox,
                   call, graphVars, detectorVars, directoryVars>>

ServerInit ==
    /\ call = NoCall
    /\ GraphIdle
    /\ DetectorIdle
    /\ DirectoryIdle
    /\ spc = "accept"
    /\ client = "connecting"
    /\ requested = <<>>
    /\ wire = <<>>
    /\ buffer = <<>>
    /\ request_count = 0
    /\ outbox = <<>>

ServerSteps ==
    \/ Accept
    \/ ServerRecv
    \/ ServerRecvEnd

ServerNext ==
    \/ Accept
    \/ ClientSend
    \/ ClientClose
    \/ ServerRecv
    \/ ServerRecvEnd

\* the server thread keeps running; the client may stop sending at any time
ServerSpec == ServerInit /\ [][ServerNext]_vars /\ WF_vars(ServerSteps)

\* how many complete requests the server has received so far
Arrived ==
    request_count + Cardinality({n \in DOMAIN buffer : buffer[n] = NUL})

\* C28: on one connection every complete request the server has received is
\* eventually answered, the k-th response answering the k-th request: a
\* length followed by float32 audio for "generate", a null-terminated JSON
\* object for any other command; the client need not send anything more.
\* (A connection the client has closed is let off.)
C28_Stated ==
    /\ [](\A k \in DOMAIN outbox :
            IF requested[k] = "generate"
            THEN outbox[k] = <<"length", "float32">>
            ELSE outbox[k][1] = "{" /\ outbox[k][Len(outbox[k])] = NUL)
    /\ \A k \in 1..(MaxRequests + 1) :
          [](Arrived >= k => <>(Len(outbox) >= k \/ spc = "closed"))

(***************************************************************************)
(* Segment classification                                                  *)
(***************************************************************************)
\* Times are in tenths of a second; energy, energy_variance and
\* total_energy_mean are in millionths, so that the 1e-6 added to the mean is
\* one unit.  position_ratio = start / duration and
\* energy_ratio = energy / (total_energy_mean + 1e-6) are compared with
\* their thresholds by cross-multiplication (duration > 0, mean >= 0).
Epsilon == 1

\* classify_segment with the energy tests ahead of the position tests
classify_segment_energy(start, end, dur, energy, energy_variance, total_energy_mean) ==
    IF 10 * energy < 6 * (total_energy_mean + Epsilon) /\ energy_variance < 10000
    THEN "breakdown"
    ELSE IF 10 * energy > 13 * (total_energy_mean + Epsilon) THEN "drop"
    ELSE IF 10 * start < dur THEN "intro"
    ELSE IF 10 * start > 9 * dur THEN "outro"
    ELSE IF energy > total_energy_mean + Epsilon THEN "chorus"
    ELSE "verse"

classify_segment(start, end, dur, energy, energy_variance, total_energy_mean) ==
    IF 10 * start < dur THEN "intro"
    ELSE IF 10 * start > 9 * dur THEN "outro"
    ELSE IF 10 * energy < 6 * (total_energy_mean + Epsilon) /\ energy_variance < 10000
    THEN "breakdown"
    ELSE IF 10 * energy > 13 * (total_energy_mean + Epsilon) THEN "drop"
    ELSE IF energy > total_energy_mean + Epsilon THEN "chorus"
    ELSE "verse"

\* the longest track the classifier is called for, in tenths of a second
MaxTrackLength == 1000

TrackLengthInputs == {300, MaxTrackLength}

SegmentStartInputs == {0, 29, 30, 99, 100, 150, 270, 271, 500, 900, 901}

SegmentEnergyInputs ==
    {0, 100000, 120000, 120001, 150000, 200002, 230000, 260001, 260002, 500000}

EnergyVarianceInputs == {0, 9999, 10000, 40000}

EnergyMeanInputs == {0, 200000}

ClassifierCalls ==
    \E dur \in TrackLengthInputs, start \in SegmentStartInputs,
       energy \in SegmentEnergyInputs, energy_variance \in EnergyVarianceInputs,
       total_energy_mean \in EnergyMeanInputs :
          /\ start < dur
          /\ call = Pending("classify_segment",
                            [start |-> start, end |-> dur, duration |-> dur],
                            [energy |-> energy, energy_variance |-> energy_variance,
                             total_energy_mean |-> total_energy_mean])

CallClassifySegment ==
    /\ call.fn = "classify_segment" /\ ~call.done
    /\ Return(classify_segment(call.x.start, call.x.end, call.x.duration,
                               call.y.energy, call.y.energy_variance,
                               call.y.total_energy_mean))
    /\ UNCHANGED <<serverVars, graphVars, detectorVars, directoryVars>>

ClassifierInit ==
    /\ ClassifierCalls
    /\ GraphIdle
    /\ DetectorIdle
    /\ DirectoryIdle
    /\ ServerIdle

ClassifierNext == CallClassifySegment

ClassifierSpec == ClassifierInit /\ [][ClassifierNext]_vars

SegmentLabels == {"intro", "outro", "breakdown", "drop", "chorus", "verse"}

\* position_ratio < n/10, position_ratio > n/10
PositionBelow(n) == 10 * call.x.start < n * call.x.duration
PositionAbove(n) == 10 * call.x.start > n * call.x.duration

\* energy_ratio < n/10, energy_ratio > n/10
EnergyBelow(n) == 10 * call.y.energy < n * (call.y.total_energy_mean + Epsilon)
EnergyAbove(n) == 10 * call.y.energy > n * (call.y.total_energy_mean + Epsilon)

\* C26: position beats energy: a segment starting in the first tenth of the
\* track is an intro and one starting in the last tenth an outro whatever its
\* energy; any other is a breakdown when energy_ratio < 0.6 with variance
\* < 0.01, else a drop when energy_ratio > 1.3, else a chorus when
\* energy_ratio > 1.0, else a verse; every call returns one of the six labels.
C26_PositionBeatsEnergy ==
    Returned("classify_segment") =>
        /\ call.out \in SegmentLabels
        /\ PositionBelow(1) => call.out = "intro"
        /\ (~PositionBelow(1) /\ PositionAbove(9)) => call.out = "outro"
        /\ (~PositionBelow(1) /\ ~PositionAbove(9)) =>
              call.out =
                 IF EnergyBelow(6) /\ call.y.energy_variance < 10000 THEN "breakdown"
                 ELSE IF EnergyAbove(13) THEN "drop"
                 ELSE IF EnergyAbove(10) THEN "chorus"
                 ELSE "verse"

\* a segment starting in the first tenth with the energy of a drop is an intro
C26_Witness ==
    /\ Returned("classify_segment")
    /\ PositionBelow(1)
    /\ call.x.start > 0
    /\ EnergyAbove(13)
    /\ call.out = "intro"

(***************************************************************************)
(* Detector properties: merge, split, segment length                       *)
(***************************************************************************)
\* the downbeats closer than `within` to time t
DownbeatsNear(t, within) == {d \in Range(downbeats) : Abs(d - t) < within}

\* the nearest of them, the earliest when two are equally near
NearestOf(near, t) ==
    CHOOSE d \in near :
        \A e \in near : Abs(d - t) < Abs(e - t) \/ (Abs(d - t) = Abs(e - t) /\ d <= e)

\* time t moved to the nearest downbeat when that one is closer than `within`
SnappedTo(t, within) ==
    IF DownbeatsNear(t, within) = {} THEN t ELSE NearestOf(DownbeatsNear(t, within), t)

\* the split points of the gap from..to when cut into `pieces` equal pieces
EqualSplits(from, to, pieces) ==
    {SnappedTo(from + ((to - from) * j) \div pieces, 2 * TimeUnit) : j \in 1..(pieces - 1)}

\* the boundaries after a split step that cuts every gap above 30 s into
\* Pieces(gap) pieces
SplitInto(Pieces(_)) ==
    Range(phrase_times) \cup
    UNION {IF phrase_times[n + 1] - phrase_times[n] > 30 * TimeUnit
           THEN EqualSplits(phrase_times[n], phrase_times[n + 1],
                            Pieces(phrase_times[n + 1] - phrase_times[n]))
           ELSE {} : n \in 1..(Len(phrase_times) - 1)}

CeilPieces(gap) == (gap + 15 * TimeUnit - 1) \div (15 * TimeUnit)

FloorPieces(gap) == gap \div (15 * TimeUnit)

\* C25 as stated: the split step cuts every gap longer than 30 s into
\* ceil(gap/15) equal pieces, each split point moved to the nearest downbeat
\* when that is within 2 s, and leaves the other gaps alone.
C25_Stated ==
    [][dpc = "split" => Range(phrase_times') = SplitInto(CeilPieces)]_vars

\* C25 amended: the split step cuts every gap longer than 30 s into
\* floor(gap/15) equal pieces, each split point moved to the nearest downbeat
\* when that is less than 2 s away, and leaves the other gaps alone.
C25_FloorSplit ==
    [][dpc = "split" =>
          /\ Range(phrase_times') = SplitInto(FloorPieces)
          /\ phrase_times' = Sorted(Range(phrase_times'))]_vars

\* a 40 s gap cut in two at a downbeat, not at its middle
C25_Witness ==
    /\ dpc = "classify"
    /\ \E n \in 1..(Len(phrase_times) - 2) :
          /\ phrase_times[n + 2] - phrase_times[n] = 40 * TimeUnit
          /\ phrase_times[n + 1] \in Range(downbeats)
          /\ phrase_times[n + 1] - phrase_times[n] # 20 * TimeUnit
          /\ phrase_times[n] \in all_boundaries
          /\ phrase_times[n + 1] \notin all_boundaries

\* C27: the merge step takes the peaks in order; a peak farther than 2 s
\* from every boundary of the moment adds the nearest downbeat when that is
\* less than 1 s from the peak and the peak itself otherwise; any other peak
\* adds nothing.
C27_MergePeaks ==
    [][(dpc = "merge" /\ peak' = peak + 1)
        => LET peak_time == novelty_peaks[peak + 1]
           IN  all_boundaries' =
                  IF \A b \in all_boundaries : Abs(peak_time - b) > 2 * TimeUnit
                  THEN all_boundaries \cup {SnappedTo(peak_time, TimeUnit)}
                  ELSE all_boundaries]_vars

\* after the merge: one peak was moved to a downbeat, one was added raw and
\* one was dropped
C27_Witness ==
    /\ dpc = "merge"
    /\ peak = Len(novelty_peaks)
    /\ \E p \in Range(novelty_peaks) :
          p \notin all_boundaries /\ SnappedTo(p, TimeUnit) \in all_boundaries
    /\ \E p \in Range(novelty_peaks) :
          p \in all_boundaries /\ p \notin Range(downbeats)
    /\ \E p \in Range(novelty_peaks) :
          p \notin all_boundaries /\ SnappedTo(p, TimeUnit) \notin all_boundaries

\* C29: no returned segment is longer than 30 s.
C29_SegmentsAtMost30 ==
    dpc = "returned" =>
        \A n \in DOMAIN segments : segments[n].end - segments[n].start <= 30 * TimeUnit

\* a track of MaxDuration seconds whose boundaries were more than 30 s apart
\* before the split step
C29_Witness ==
    /\ dpc = "returned"
    /\ duration = MaxDuration * TimeUnit
    /\ Len(segments) >= 4
    /\ \E n \in DOMAIN segments :
          /\ segments[n].start \notin all_boundaries
          /\ segments[n].start \in Range(downbeats)

====
